---- MODULE Spec2Model ----
(***************************************************************************)
(* Model of the runtime builder of current-thread-runtime (src/lib.rs).    *)
(*                                                                         *)
(* The crate's own code is the Builder: Builder::new, Builder::clock,      *)
(* Builder::build and Builder::build_with_park.  build_with_park is        *)
(* modelled statement by statement; pc names the source line the call is   *)
(* about to execute.  Reactor, Timer, the Park/Unpark traits and           *)
(* CurrentThread come from the tokio crates: the model keeps only what     *)
(* lib.rs itself does with them, namely which constructor is called, with  *)
(* which arguments, in which order, and where each returned value goes.    *)
(* A value built by one of those constructors is a record of the           *)
(* arguments it was built from.                                            *)
(***************************************************************************)
EXTENDS Naturals, Sequences, FiniteSets

VARIABLES
    clock,        \* Builder.clock (lib.rs:49)
    pc,           \* "idle", or the statement of build_with_park to run next
    call,         \* the call in progress: entry point and the new_park closure
    reactor_new,  \* the io::Result returned by Reactor::new() (lib.rs:80)
    reactor,      \* local `reactor`
    reactor_handle,
    timer,        \* local `timer`; NoVal once moved into new_park
    timer_handle,
    park,         \* local `park`; NoVal once moved into the executor
    unpark,
    executor,
    runtime,
    ret,          \* the value build_with_park returns
    result,       \* what the caller received from its most recent call
    log,          \* constructor calls made by the most recent call, in order
    nCalls,       \* build / build_with_park calls made so far
    nReactors     \* reactors created so far (each has its own OS handle)

vars == <<clock, pc, call, reactor_new, reactor, reactor_handle, timer,
          timer_handle, park, unpark, executor, runtime, ret, result, log,
          nCalls, nReactors>>

locals == <<reactor_new, reactor, reactor_handle, timer, timer_handle, park,
            unpark, executor, runtime>>

\* Number of build / build_with_park calls explored.
MaxBuilds == 3

NoVal == [kind |-> "none"]

\* Clock::new() is the system clock; the others stand for injected clocks.
SystemClock == [kind |-> "Clock", now |-> "system"]

Clocks == {SystemClock,
           [kind |-> "Clock", now |-> "mockA"],
           [kind |-> "Clock", now |-> "mockB"]}

\* io::Error values Reactor::new() may fail with.
IoErrors == {[kind |-> "io::Error", code |-> "EMFILE"],
             [kind |-> "io::Error", code |-> "ENOMEM"]}

\* The new_park closures explored: |park| park, a layer that keeps the
\* timer inside it, and a closure that drops the timer and returns an
\* unrelated Park.
Wrappers == {"Identity", "Layer", "Replace"}

\* Clock is Clone: the copy reads the same time source.
CloneClock(c) == [kind |-> "Clock", now |-> c.now]

Ok(v) == [ok |-> TRUE, val |-> v]

Err(e) == [ok |-> FALSE, err |-> e]

----------------------------------------------------------------------------
(* Values the tokio constructors return, as records of their arguments.    *)

ReactorValue(id) == [kind |-> "Reactor", id |-> id]

HandleOf(src) == [kind |-> "Handle", of |-> src]

TimerNewWithNow(r, c) == [kind |-> "Timer", park |-> r, now |-> c]

\* Applying the caller's closure to the timer.
ApplyNewPark(f, t) ==
    CASE f = "Identity" -> t
      [] f = "Layer"    -> [kind |-> "Custom", park |-> t]
      [] f = "Replace"  -> [kind |-> "ParkThread"]

\* park.unpark(): the token of that Park value.
UnparkOf(p) == [kind |-> "Unpark", of |-> p]

CurrentThreadNewWithPark(p) == [kind |-> "CurrentThread", park |-> p]

RuntimeNew2(rh, th, c, e) ==
    [kind |-> "Runtime", reactor_handle |-> rh, timer_handle |-> th,
     clock |-> c, executor |-> e]

----------------------------------------------------------------------------
Init ==
    /\ clock = SystemClock
    /\ pc = "idle"
    /\ call = NoVal
    /\ reactor_new = NoVal
    /\ reactor = NoVal
    /\ reactor_handle = NoVal
    /\ timer = NoVal
    /\ timer_handle = NoVal
    /\ park = NoVal
    /\ unpark = NoVal
    /\ executor = NoVal
    /\ runtime = NoVal
    /\ ret = NoVal
    /\ result = NoVal
    /\ log = << >>
    /\ nCalls = 0
    /\ nReactors = 0

\* Builder::clock(&mut self, clock)
Builder_clock ==
    /\ pc = "idle"
    /\ \E c \in Clocks : clock' = c
    /\ UNCHANGED <<pc, call, locals, ret, result, log, nCalls, nReactors>>

\* Builder::build(&mut self): build_with_park(|park| park), then the map
\* of lib.rs:71 on what it returns.
Call_build ==
    /\ pc = "idle"
    /\ nCalls < MaxBuilds
    /\ nCalls' = nCalls + 1
    /\ call' = [fn |-> "build", new_park |-> "Identity"]
    /\ pc' = "l80"
    /\ log' = << >>
    /\ UNCHANGED <<clock, locals, ret, result, nReactors>>

\* Builder::build_with_park(&mut self, new_park)
Call_build_with_park ==
    /\ pc = "idle"
    /\ nCalls < MaxBuilds
    /\ nCalls' = nCalls + 1
    /\ \E f \in Wrappers : call' = [fn |-> "build_with_park", new_park |-> f]
    /\ pc' = "l80"
    /\ log' = << >>
    /\ UNCHANGED <<clock, locals, ret, result, nReactors>>

\* Reactor::new() succeeds: a reactor with a fresh OS handle.
ReactorNewOk ==
    /\ pc = "l80"
    /\ nReactors' = nReactors + 1
    /\ reactor_new' = Ok(ReactorValue(nReactors + 1))
    /\ log' = Append(log, "Reactor::new")
    /\ pc' = "l80?"
    /\ UNCHANGED <<clock, call, reactor, reactor_handle, timer, timer_handle,
                   park, unpark, executor, runtime, ret, result, nCalls>>

\* Reactor::new() fails with an io::Error.
ReactorNewErr ==
    /\ pc = "l80"
    /\ \E e \in IoErrors : reactor_new' = Err(e)
    /\ log' = Append(log, "Reactor::new")
    /\ pc' = "l80?"
    /\ UNCHANGED <<clock, call, reactor, reactor_handle, timer, timer_handle,
                   park, unpark, executor, runtime, ret, result, nCalls,
                   nReactors>>

\* ReactorTry as it would be with the error rebuilt instead of passed on
\* (map_err to a new io::Error of kind Other).
ReactorTryRewrapped ==
    /\ pc = "l80?"
    /\ IF reactor_new.ok
         THEN /\ reactor' = reactor_new.val
              /\ ret' = ret
              /\ pc' = "l81"
         ELSE /\ reactor' = reactor
              /\ ret' = Err([kind |-> "io::Error", code |-> "Other"])
              /\ pc' = "ret"
    /\ reactor_new' = NoVal
    /\ UNCHANGED <<clock, call, reactor_handle, timer, timer_handle, park,
                   unpark, executor, runtime, result, log, nCalls, nReactors>>

\* The `?` of lib.rs:80: an Err returns from build_with_park at once, with
\* the error converted by From<io::Error> for io::Error (no change); an Ok
\* binds `reactor`.
ReactorTry ==
    /\ pc = "l80?"
    /\ IF reactor_new.ok
         THEN /\ reactor' = reactor_new.val
              /\ ret' = ret
              /\ pc' = "l81"
         ELSE /\ reactor' = reactor
              /\ ret' = Err(reactor_new.err)
              /\ pc' = "ret"
    /\ reactor_new' = NoVal
    /\ UNCHANGED <<clock, call, reactor_handle, timer, timer_handle, park,
                   unpark, executor, runtime, result, log, nCalls, nReactors>>

\* let reactor_handle = reactor.handle();
ReactorHandle ==
    /\ pc = "l81"
    /\ reactor_handle' = HandleOf(reactor)
    /\ log' = Append(log, "Reactor::handle")
    /\ pc' = "l85"
    /\ UNCHANGED <<clock, call, reactor_new, reactor, timer, timer_handle,
                   park, unpark, executor, runtime, ret, result, nCalls,
                   nReactors>>

\* let timer = Timer::new_with_now(reactor, self.clock.clone());
\* `reactor` is moved into the timer.
TimerNew ==
    /\ pc = "l85"
    /\ timer' = TimerNewWithNow(reactor, CloneClock(clock))
    /\ reactor' = NoVal
    /\ log' = Append(log, "Timer::new_with_now")
    /\ pc' = "l86"
    /\ UNCHANGED <<clock, call, reactor_new, reactor_handle, timer_handle,
                   park, unpark, executor, runtime, ret, result, nCalls,
                   nReactors>>

\* let timer_handle = timer.handle();
TimerHandle ==
    /\ pc = "l86"
    /\ timer_handle' = HandleOf(timer)
    /\ log' = Append(log, "Timer::handle")
    /\ pc' = "l88"
    /\ UNCHANGED <<clock, call, reactor_new, reactor, reactor_handle, timer,
                   park, unpark, executor, runtime, ret, result, nCalls,
                   nReactors>>

\* let park = new_park(timer);   `timer` is moved into the closure.
NewPark ==
    /\ pc = "l88"
    /\ park' = ApplyNewPark(call.new_park, timer)
    /\ timer' = NoVal
    /\ log' = Append(log, "new_park")
    /\ pc' = "l89"
    /\ UNCHANGED <<clock, call, reactor_new, reactor, reactor_handle,
                   timer_handle, unpark, executor, runtime, ret, result,
                   nCalls, nReactors>>

\* ParkUnpark as it would be with the token taken from the timer instead
\* of from the value new_park returned.
ParkUnparkOfTimer ==
    /\ pc = "l89"
    /\ unpark' = UnparkOf(timer_handle.of)
    /\ log' = Append(log, "Park::unpark")
    /\ pc' = "l94"
    /\ UNCHANGED <<clock, call, reactor_new, reactor, reactor_handle, timer,
                   timer_handle, park, executor, runtime, ret, result, nCalls,
                   nReactors>>

\* let unpark = park.unpark();
ParkUnpark ==
    /\ pc = "l89"
    /\ unpark' = UnparkOf(park)
    /\ log' = Append(log, "Park::unpark")
    /\ pc' = "l94"
    /\ UNCHANGED <<clock, call, reactor_new, reactor, reactor_handle, timer,
                   timer_handle, park, executor, runtime, ret, result, nCalls,
                   nReactors>>

\* let executor = CurrentThread::new_with_park(park);   `park` is moved.
ExecutorNew ==
    /\ pc = "l94"
    /\ executor' = CurrentThreadNewWithPark(park)
    /\ park' = NoVal
    /\ log' = Append(log, "CurrentThread::new_with_park")
    /\ pc' = "l96"
    /\ UNCHANGED <<clock, call, reactor_new, reactor, reactor_handle, timer,
                   timer_handle, unpark, runtime, ret, result, nCalls,
                   nReactors>>

\* let runtime = Runtime::new2(reactor_handle, timer_handle,
\*                             self.clock.clone(), executor);
RuntimeNew ==
    /\ pc = "l96"
    /\ runtime' = RuntimeNew2(reactor_handle, timer_handle, CloneClock(clock),
                              executor)
    /\ reactor_handle' = NoVal
    /\ timer_handle' = NoVal
    /\ executor' = NoVal
    /\ log' = Append(log, "Runtime::new2")
    /\ pc' = "l98"
    /\ UNCHANGED <<clock, call, reactor_new, reactor, timer, park, unpark,
                   ret, result, nCalls, nReactors>>

\* Ok((runtime, unpark))
ReturnOk ==
    /\ pc = "l98"
    /\ ret' = Ok(<<runtime, unpark>>)
    /\ runtime' = NoVal
    /\ unpark' = NoVal
    /\ pc' = "ret"
    /\ UNCHANGED <<clock, call, reactor_new, reactor, reactor_handle, timer,
                   timer_handle, park, executor, result, log, nCalls,
                   nReactors>>

\* Result::map(|(rt, _)| rt) of lib.rs:71.
MapFirst(r) == IF r.ok THEN Ok(r.val[1]) ELSE Err(r.err)

\* The caller receives the value: build_with_park's own, or, through
\* build, that value with the token dropped.
Deliver ==
    /\ pc = "ret"
    /\ result' = IF call.fn = "build" THEN MapFirst(ret) ELSE ret
    /\ ret' = NoVal
    /\ pc' = "idle"
    /\ UNCHANGED <<clock, call, locals, log, nCalls, nReactors>>

Next ==
    \/ Builder_clock
    \/ Call_build
    \/ Call_build_with_park
    \/ ReactorNewOk
    \/ ReactorNewErr
    \/ ReactorTry
    \/ ReactorHandle
    \/ TimerNew
    \/ TimerHandle
    \/ NewPark
    \/ ParkUnpark
    \/ ExecutorNew
    \/ RuntimeNew
    \/ ReturnOk
    \/ Deliver

Spec == Init /\ [][Next]_vars

----------------------------------------------------------------------------
(* Properties                                                              *)

\* The constructor calls of a build that succeeds, in source order.
FullAssembly ==
    <<"Reactor::new", "Reactor::handle", "Timer::new_with_now",
      "Timer::handle", "new_park", "Park::unpark",
      "CurrentThread::new_with_park", "Runtime::new2">>

AllLocalsGone(s) == \A i \in 1..Len(s) : s[i] = NoVal

Returned == pc = "idle" /\ result # NoVal

\* The runtime of a successful result: build returns it alone,
\* build_with_park returns it paired with the token.
RuntimeOf(r) == IF call.fn = "build" THEN r.val ELSE r.val[1]

\* C7: a build that succeeds has made its constructor calls bottom-up, each
\* once (Reactor, Timer, the caller's new_park, Executor, Runtime); the
\* Timer wraps the Reactor created by this call and carries the Builder's
\* clock; the Executor wraps exactly the value new_park returned for that
\* Timer; the token returned with the Runtime is the one made by that same
\* value; the Runtime holds the handles of that Reactor and Timer and the
\* Builder's clock; build is the same with the identity closure and
\* returns the Runtime without the token.
C7_Step ==
    (pc = "ret" /\ pc' = "idle" /\ result'.ok) =>
        LET r == [kind |-> "Reactor", id |-> nReactors]
            t == [kind |-> "Timer", park |-> r, now |-> clock]
            p == ApplyNewPark(call.new_park, t)
            rt == RuntimeOf(result')
        IN  /\ log = FullAssembly
            /\ rt.kind = "Runtime"
            /\ rt.executor = [kind |-> "CurrentThread", park |-> p]
            /\ rt.reactor_handle = [kind |-> "Handle", of |-> r]
            /\ rt.timer_handle = [kind |-> "Handle", of |-> t]
            /\ rt.clock = clock
            /\ call.fn = "build_with_park" =>
                   result'.val[2] = [kind |-> "Unpark", of |-> p]
            /\ call.fn = "build" => call.new_park = "Identity"

C7_AssemblyLayering == [][C7_Step]_vars

\* A build_with_park with a layering closure and an injected clock has
\* returned a Runtime and a token; it is the Builder's second build.
C7_Witness ==
    /\ Returned
    /\ result.ok
    /\ call.fn = "build_with_park"
    /\ call.new_park = "Layer"
    /\ result.val[1].clock # SystemClock
    /\ result.val[2].of.kind = "Custom"
    /\ nReactors = 2

\* C10: when Reactor::new() fails, the call returns that same io::Error to
\* the caller, having made no constructor call but Reactor::new (no Timer,
\* no new_park, no Executor, no Runtime, no token), and no statement of a
\* build changes the Builder's clock.
C10_Step ==
    /\ pc # "idle" => clock' = clock
    /\ (pc = "l80?" /\ ~reactor_new.ok) =>
           /\ pc' = "ret"
           /\ ret' = [ok |-> FALSE, err |-> reactor_new.err]
           /\ log' = <<"Reactor::new">>
           /\ AllLocalsGone(<<reactor', reactor_handle', timer',
                              timer_handle', park', unpark', executor',
                              runtime'>>)
    /\ (pc = "ret" /\ ~ret.ok) =>
           /\ pc' = "idle"
           /\ result' = [ok |-> FALSE, err |-> ret.err]
           /\ log' = <<"Reactor::new">>
           /\ AllLocalsGone(<<reactor', reactor_handle', timer',
                              timer_handle', park', unpark', executor',
                              runtime'>>)

C10_ReactorFailure == [][C10_Step]_vars

\* The caller still holds the error of a failed build while a later build
\* on the same Builder, with a clock set before the failure, has assembled
\* its Runtime.
C10_Witness ==
    /\ result # NoVal
    /\ ~result.ok
    /\ pc = "l98"
    /\ runtime # NoVal
    /\ runtime.clock = clock
    /\ clock # SystemClock
    /\ log = FullAssembly

====
